---- MODULE Spec2Model ----
(***************************************************************************)
(* Name resolution and call matching of the Ada language definition        *)
(* (ada/language/ast.py): SubprogramSpec parameter matching, BaseId and    *)
(* Prefix resolution properties over lexical environments, and the         *)
(* child_unit environment specification.                                   *)
(***************************************************************************)
EXTENDS Integers, Sequences, FiniteSets, TLC

VARIABLES
    subp,       \* the SubprogramSpec under test: [params: Seq(ParameterProfile)]
    params,     \* the ParamList under test: Seq(ParamAssoc)
    tree,       \* the syntax tree: node id -> node (immutable once built)
    envs,       \* lexical environments: env id -> [parent, entries]
    stack,      \* the builder's stack of open environments (innermost last)
    phase,      \* "match" | "tree" | "resolve" | "build" | "built"
    res         \* the result of the last property evaluated

vars == <<subp, params, tree, envs, stack, phase, res>>

(***************************************************************************)
(* Bounds of the model.                                                    *)
(***************************************************************************)
MaxFormals == 2
MaxActuals == 3

NoRes == [op |-> "none"]

(***************************************************************************)
(* Tokens and symbols.  A token carries its source text; its symbol is the *)
(* case-normalised text (Ada identifiers are case-insensitive).            *)
(***************************************************************************)
Symbol(text) ==
    CASE text = "X" -> "x"
      [] text = "Y" -> "y"
      [] text = "Z" -> "z"
      [] text = "A" -> "a"
      [] text = "B" -> "b"
      [] text = "C" -> "c"
      [] text = "U" -> "u"
      [] text = "D" -> "d"
      [] OTHER -> text

matchesExact(self, other) == self.tok = other.tok

\* SingleTokNode.matches: Self.name.symbol.equals(other.name.symbol)
matches(self, other) == Symbol(self.tok) = Symbol(other.tok)

(***************************************************************************)
(* Collection helpers of the property language, 0-based as in the source.  *)
(***************************************************************************)
\* collection.at(i): the element at index i, absent when out of bounds
InRange(coll, i) == i >= 0 /\ i < Len(coll)

At(coll, i) == coll[i + 1]

RECURSIVE Flatten(_)
Flatten(seqs) ==
    IF seqs = <<>> THEN <<>> ELSE Head(seqs) \o Flatten(Tail(seqs))

(***************************************************************************)
(* SubprogramSpec                                                          *)
(***************************************************************************)
\* typed_param_list: mapcat over the parameter profiles of one
\* SingleParameter (name, profile) per identifier of the profile
typed_param_list(ss) ==
    Flatten([g \in 1..Len(ss.params) |->
                [k \in 1..Len(ss.params[g].ids) |->
                    [name |-> [kind |-> "Identifier", tok |-> ss.params[g].ids[k]],
                     profile |-> ss.params[g]]]])

nb_min_params(ss) ==
    Len(SelectSeq(typed_param_list(ss), LAMBDA p: p.profile.default = "null"))

nb_max_params(ss) == Len(typed_param_list(ss))

no_match == [has_matched |-> FALSE, is_formal_opt |-> FALSE]

ParamMatchOf(single_param) ==
    [has_matched |-> TRUE, is_formal_opt |-> ~(single_param.profile.default = "null")]

\* typed_params.find(pred): the first of the indices whose element satisfies
\* pred, 0 if there is none
FindFirst(hits) ==
    IF hits = {} THEN 0 ELSE CHOOSE k \in hits : \A j \in hits : k <= j

\* pa.designator.cast(Identifier): Identifier and its subclass EnumIdentifier
IsIdentifier(d) == d.kind \in {"Identifier", "EnumIdentifier"}

match_param_list_exact(ss, pl) ==
    LET typed_params == typed_param_list(ss)
    IN [k \in 1..Len(pl) |->
          LET i == k - 1
              pa == pl[k]
          IN IF pa.designator.kind = "Null"
             THEN IF InRange(typed_params, i)
                  THEN ParamMatchOf(At(typed_params, i))
                  ELSE no_match
             ELSE IF IsIdentifier(pa.designator)
                  THEN LET f == FindFirst({j \in 1..Len(typed_params) :
                                             matchesExact(typed_params[j].name,
                                                          pa.designator)})
                       IN IF f = 0 THEN no_match ELSE ParamMatchOf(typed_params[f])
                  ELSE no_match]

match_param_list(ss, pl) ==
    LET typed_params == typed_param_list(ss)
    IN [k \in 1..Len(pl) |->
          LET i == k - 1
              pa == pl[k]
          IN IF pa.designator.kind = "Null"
             THEN IF InRange(typed_params, i)
                  THEN ParamMatchOf(At(typed_params, i))
                  ELSE no_match
             ELSE IF IsIdentifier(pa.designator)
                  THEN LET f == FindFirst({j \in 1..Len(typed_params) :
                                             matches(typed_params[j].name,
                                                     pa.designator)})
                       IN IF f = 0 THEN no_match ELSE ParamMatchOf(typed_params[f])
                  ELSE no_match]

is_matching_param_list_no_max(ss, pl) ==
    LET match_list == match_param_list(ss, pl)
    IN /\ \A k \in 1..Len(match_list) : match_list[k].has_matched
       /\ Len(SelectSeq(match_list, LAMBDA m: ~m.is_formal_opt)) = nb_min_params(ss)

is_matching_param_list_count_opt(ss, pl) ==
    LET match_list == match_param_list(ss, pl)
    IN /\ \A k \in 1..Len(match_list) : match_list[k].has_matched
       /\ Len(SelectSeq(match_list, LAMBDA m: m.is_formal_opt)) = nb_min_params(ss)
       /\ Len(pl) <= nb_max_params(ss)

is_matching_param_list(ss, pl) ==
    LET match_list == match_param_list(ss, pl)
    IN /\ \A k \in 1..Len(match_list) : match_list[k].has_matched
       /\ Len(SelectSeq(match_list, LAMBDA m: ~m.is_formal_opt)) = nb_min_params(ss)
       /\ Len(pl) <= nb_max_params(ss)

match_param_assoc(ss, pa) ==
    /\ nb_max_params(ss) > 0
    /\ \/ ~(pa.designator.kind = "Null")
       \/ /\ IsIdentifier(pa.designator)
          /\ \E k \in 1..Len(typed_param_list(ss)) :
                matches(typed_param_list(ss)[k].name, pa.designator)

(***************************************************************************)
(* Inputs of the matching properties.                                      *)
(***************************************************************************)
FormalNames == {"X", "Y"}

SeqsUpTo(S, n) == UNION {[1..k -> S] : k \in 0..n}

NonEmptySeqsUpTo(S, n) == UNION {[1..k -> S] : k \in 1..n}

ParameterProfiles ==
    [ids : NonEmptySeqsUpTo(FormalNames, MaxFormals), default : {"null", "expr"}]

RECURSIVE NbIds(_)
NbIds(groups) ==
    IF groups = <<>> THEN 0 ELSE Len(Head(groups).ids) + NbIds(Tail(groups))

SubprogramSpecs ==
    {[params |-> g] : g \in {s \in SeqsUpTo(ParameterProfiles, MaxFormals) :
                                NbIds(s) <= MaxFormals}}

NullDesignator == [kind |-> "Null", tok |-> ""]

Designators ==
    {NullDesignator,
     [kind |-> "Identifier", tok |-> "x"],
     [kind |-> "Identifier", tok |-> "Y"],
     [kind |-> "Identifier", tok |-> "Z"],
     [kind |-> "StringLiteral", tok |-> "X"]}

ParamAssocs == [designator : Designators]

ParamLists == SeqsUpTo(ParamAssocs, MaxActuals)

NoSubp == [params |-> <<>>]

(***************************************************************************)
(* Matching specification: the inputs are drawn in the initial state and   *)
(* each action evaluates one property on them.                             *)
(***************************************************************************)
MatchInit ==
    /\ subp \in SubprogramSpecs
    /\ params \in ParamLists
    /\ tree = <<>>
    /\ envs = <<>>
    /\ stack = <<>>
    /\ phase = "match"
    /\ res = NoRes

EvalMatchParamList ==
    /\ phase = "match"
    /\ res = NoRes
    /\ res' = [op |-> "match_param_list", val |-> match_param_list(subp, params)]
    /\ UNCHANGED <<subp, params, tree, envs, stack, phase>>

\* md is the metadata of the env element through which the profile was reached
EvalIsMatchingParamList ==
    /\ phase = "match"
    /\ res = NoRes
    /\ \E dottable \in BOOLEAN :
          res' = [op |-> "is_matching_param_list",
                  md |-> [dottable_subprogram |-> dottable, implicit_deref |-> FALSE],
                  val |-> is_matching_param_list(subp, params)]
    /\ UNCHANGED <<subp, params, tree, envs, stack, phase>>

EvalMatchParamAssoc ==
    /\ phase = "match"
    /\ res = NoRes
    /\ \E k \in 1..Len(params) :
          res' = [op |-> "match_param_assoc", pa |-> params[k],
                  val |-> match_param_assoc(subp, params[k])]
    /\ UNCHANGED <<subp, params, tree, envs, stack, phase>>

MatchNext ==
    \/ EvalMatchParamList
    \/ EvalIsMatchingParamList
    \/ EvalMatchParamAssoc

MatchSpec == MatchInit /\ [][MatchNext]_vars

(***************************************************************************)
(* Claims about call matching, checked under MatchSpec.                    *)
(***************************************************************************)
Positional == [designator |-> NullDesignator]

Named(text) == [designator |-> [kind |-> "Identifier", tok |-> text]]

\* profile (X : T; Y : T := default)
ProfileXYdefault ==
    [params |-> <<[ids |-> <<"X">>, default |-> "null"],
                  [ids |-> <<"Y">>, default |-> "expr"]>>]

\* profile (Self : T; N : Integer), written with the formal names X and Y:
\* two formals, none with a default
ProfileSelfN ==
    [params |-> <<[ids |-> <<"X">>, default |-> "null"],
                  [ids |-> <<"Y">>, default |-> "null"]>>]

\* C1: is_matching_param_list(params) is true iff every actual has matched,
\* the number of match entries that are not optional equals nb_min_params and
\* the number of actuals is at most nb_max_params; for (X : T; Y : T :=
\* default) the call (1) matches, (1, 2, 3) and (Y => 2) do not.
C1_IsMatchingIff ==
    res.op = "is_matching_param_list" =>
        LET ml == match_param_list(subp, params)
            allMatched == \A k \in DOMAIN ml : ml[k].has_matched
            nonOpt == Cardinality({k \in DOMAIN ml : ~ml[k].is_formal_opt})
        IN /\ res.val = (/\ allMatched
                         /\ nonOpt = nb_min_params(subp)
                         /\ Len(params) <= nb_max_params(subp))
           /\ subp = ProfileXYdefault =>
                /\ params = <<Positional>> => res.val = TRUE
                /\ params = <<Positional, Positional, Positional>> => res.val = FALSE
                /\ params = <<Named("Y")>> => res.val = FALSE

C1_Witness ==
    /\ res.op = "is_matching_param_list"
    /\ subp = ProfileXYdefault
    /\ params = <<Positional>>
    /\ res.val = TRUE

\* C2: match_param_list yields, for the actual at index i: without designator,
\* has_matched = (i < nb_max_params) and is_formal_opt = the i-th flattened
\* formal has a default; with an Identifier designator, has_matched = some
\* flattened formal has the same symbol (case-insensitively) and is_formal_opt
\* = the first such formal has a default; otherwise both are false.
C2_MatchParamList ==
    res.op = "match_param_list" =>
        LET formals == typed_param_list(subp)
        IN /\ Len(res.val) = Len(params)
           /\ \A k \in 1..Len(params) :
                LET i == k - 1
                    d == params[k].designator
                    same == {j \in 1..Len(formals) :
                                Symbol(formals[j].name.tok) = Symbol(d.tok)}
                    first == CHOOSE j \in same : \A h \in same : j <= h
                    m == res.val[k]
                IN CASE d.kind = "Null" ->
                          /\ m.has_matched = (i < nb_max_params(subp))
                          /\ m.is_formal_opt =
                                (/\ i < nb_max_params(subp)
                                 /\ formals[i + 1].profile.default # "null")
                     [] d.kind = "Identifier" ->
                          /\ m.has_matched = (same # {})
                          /\ m.is_formal_opt =
                                (/\ same # {}
                                 /\ formals[first].profile.default # "null")
                     [] OTHER ->
                          /\ m.has_matched = FALSE
                          /\ m.is_formal_opt = FALSE

C2_Witness ==
    /\ res.op = "match_param_list"
    /\ subp = ProfileXYdefault
    /\ params = <<Named("x"), Positional, Positional>>
    /\ res.val = <<[has_matched |-> TRUE, is_formal_opt |-> FALSE],
                   [has_matched |-> TRUE, is_formal_opt |-> TRUE],
                   no_match>>

\* C3: match_param_assoc(pa) is true iff nb_max_params > 0 and pa is either
\* undesignated or designated by an Identifier whose name is among the
\* profile's flattened parameter names.
C3_MatchParamAssocIff ==
    res.op = "match_param_assoc" =>
        LET formals == typed_param_list(subp)
            d == res.pa.designator
        IN res.val =
              (/\ nb_max_params(subp) > 0
               /\ \/ d.kind = "Null"
                  \/ /\ d.kind = "Identifier"
                     /\ \E j \in 1..Len(formals) :
                           Symbol(formals[j].name.tok) = Symbol(d.tok))

\* C4: for the profile (Self : T; N : Integer) reached through dot-notation
\* (dottable_subprogram = true), the call Obj.Foo (5), one positional actual,
\* is judged a match (the required count is compared against
\* nb_min_params - 1).
C4_DottableCallMatches ==
    (/\ res.op = "is_matching_param_list"
     /\ res.md.dottable_subprogram
     /\ subp = ProfileSelfN
     /\ params = <<Positional>>)
    => res.val = TRUE

\* profile (X : T; Y : T)
ProfileXY ==
    [params |-> <<[ids |-> <<"X">>, default |-> "null"],
                  [ids |-> <<"Y">>, default |-> "null"]>>]

\* the formals of ss that the actual at position k of pl supplies
SuppliedBy(ss, pl, k) ==
    LET formals == typed_param_list(ss)
    IN IF pl[k].designator.kind = "Null"
       THEN {j \in 1..Len(formals) : j = k}
       ELSE {j \in 1..Len(formals) :
               /\ pl[k].designator.kind = "Identifier"
               /\ Symbol(formals[j].name.tok) = Symbol(pl[k].designator.tok)}

\* a required formal receives no actual and another required formal is
\* supplied twice, once by position and once by name
MiscoveredCall(ss, pl) ==
    LET formals == typed_param_list(ss)
        required == {j \in 1..Len(formals) : formals[j].profile.default = "null"}
    IN /\ \E j \in required : \A k \in 1..Len(pl) : j \notin SuppliedBy(ss, pl, k)
       /\ \E j \in required : \E k1, k2 \in 1..Len(pl) :
             /\ pl[k1].designator.kind = "Null"
             /\ pl[k2].designator.kind = "Identifier"
             /\ j \in SuppliedBy(ss, pl, k1)
             /\ j \in SuppliedBy(ss, pl, k2)

\* C13: is_matching_param_list counts the matched non-optional actuals
\* without checking which required formals are covered: for the profile
\* (X : T; Y : T) and the call (1, X => 2) it returns true although Y
\* receives no actual and X is supplied twice, by position and by name.
C13_CountNotCoverage ==
    (/\ res.op = "is_matching_param_list"
     /\ subp = ProfileXY
     /\ params = <<Positional, Named("x")>>)
    => (res.val = TRUE /\ MiscoveredCall(subp, params))

C13_Witness ==
    /\ res.op = "is_matching_param_list"
    /\ subp = ProfileXY
    /\ params = <<Positional, Named("x")>>
    /\ MiscoveredCall(subp, params)
    /\ res.val = TRUE

\* C15: pruning with match_param_assoc never discards a candidate the full
\* pass accepts: when is_matching_param_list(params) is true,
\* match_param_assoc(pa) is true for every actual pa of params.
C15_PruningKeepsMatches ==
    (res.op = "is_matching_param_list" /\ res.val = TRUE) =>
        \A k \in 1..Len(params) : match_param_assoc(subp, params[k])

(***************************************************************************)
(* Syntax tree.  A node is [kind, parent, prefix, suffix, name, tok];      *)
(* Prefix uses prefix and suffix, CallExpr uses name and suffix, a         *)
(* SingleTokNode uses tok.  NoNode stands for an absent node.              *)
(***************************************************************************)
NoNode == 0

MkNode(kind, parent, prefix, suffix, name, tok) ==
    [kind |-> kind, parent |-> parent, prefix |-> prefix, suffix |-> suffix,
     name |-> name, tok |-> tok]

\* node.parents: the node itself, then its ancestors, nearest first
RECURSIVE parents(_)
parents(n) ==
    IF n = NoNode THEN <<>> ELSE <<n>> \o parents(tree[n].parent)

is_a(n, kind) == n # NoNode /\ tree[n].kind = kind

\* collection.take_while(pred): the longest prefix whose elements satisfy pred
\* (sat holds the elements that satisfy pred)
take_while(coll, sat) ==
    LET stop == {k \in 1..Len(coll) : coll[k] \notin sat}
        n == IF stop = {} THEN Len(coll)
             ELSE (CHOOSE k \in stop : \A j \in stop : k <= j) - 1
    IN SubSeq(coll, 1, n)

\* the predicate of has_callexpr's take_while
CallChainLink(p) ==
    \/ is_a(p, "CallExpr")
    \/ is_a(tree[p].parent, "CallExpr")
    \/ /\ is_a(tree[p].parent, "Prefix")
       /\ tree[tree[p].parent].suffix = p

\* BaseId.has_callexpr
has_callexpr(self) ==
    ~(take_while(parents(self),
                 {p \in 1..Len(tree) : CallChainLink(p)}) = <<>>)

(***************************************************************************)
(* Tree specification: the identifier is node 1 and the path from it to    *)
(* the root of its statement is drawn in the initial state.  A path is a   *)
(* sequence of [kind, slot], slot being the field of the parent that holds *)
(* the node (1: CallExpr.name, Prefix.prefix; 2: CallExpr.suffix,          *)
(* Prefix.suffix).                                                         *)
(***************************************************************************)
MaxDepth == 6

ExprKinds == {"Identifier", "Prefix", "CallExpr"}

\* the (parent kind, slot) pairs under which a node of kind ck can sit
ParentsOf(ck) ==
    CASE ck \in ExprKinds ->
            {<<"CallExpr", 1>>, <<"Prefix", 1>>, <<"ParamAssoc", 1>>,
             <<"ParamAssoc", 2>>, <<"AssignStatement", 1>>,
             <<"AssignStatement", 2>>}
            \cup (IF ck = "Identifier" THEN {<<"Prefix", 2>>} ELSE {})
            \cup (IF ck = "CallExpr" THEN {<<"HandledStatements", 1>>} ELSE {})
      [] ck = "ParamList" -> {<<"CallExpr", 2>>}
      [] ck = "ParamAssoc" -> {<<"List", 1>>}
      [] ck = "List" -> {<<"ParamList", 1>>}
      [] ck = "AssignStatement" -> {<<"HandledStatements", 1>>}
      [] OTHER -> {}

RECURSIVE Paths(_)
Paths(d) ==
    IF d = 1
    THEN {<<[kind |-> "Identifier", slot |-> 0]>>}
    ELSE LET shorter == Paths(d - 1)
         IN shorter \cup
            {[k \in 1..Len(c) + 1 |->
                 IF k = Len(c) + 1 THEN [kind |-> up[1], slot |-> 0]
                 ELSE IF k = Len(c) THEN [kind |-> c[k].kind, slot |-> up[2]]
                 ELSE c[k]] :
               <<c, up>> \in
                   {<<c, up>> \in shorter \X
                        ({"CallExpr", "Prefix", "ParamAssoc", "ParamList", "List",
                          "AssignStatement", "HandledStatements"} \X {1, 2}) :
                       /\ c[Len(c)].slot = 0
                       /\ up \in ParentsOf(c[Len(c)].kind)}}

CompletePaths == {c \in Paths(MaxDepth) : c[Len(c)].kind = "HandledStatements"}

TreeOfPath(c) ==
    [k \in 1..Len(c) |->
        LET below == IF k > 1 THEN c[k - 1].slot ELSE 0
        IN MkNode(c[k].kind,
                  IF k < Len(c) THEN k + 1 ELSE NoNode,
                  IF c[k].kind = "Prefix" /\ below = 1 THEN k - 1 ELSE NoNode,
                  IF c[k].kind \in {"Prefix", "CallExpr"} /\ below = 2
                      THEN k - 1 ELSE NoNode,
                  IF c[k].kind = "CallExpr" /\ below = 1 THEN k - 1 ELSE NoNode,
                  IF c[k].kind = "Identifier" THEN "C" ELSE "")]

TreeInit ==
    /\ subp = NoSubp
    /\ params = <<>>
    /\ tree \in {TreeOfPath(c) : c \in CompletePaths}
    /\ envs = <<>>
    /\ stack = <<>>
    /\ phase = "tree"
    /\ res = NoRes

EvalHasCallexpr ==
    /\ phase = "tree"
    /\ res = NoRes
    /\ \E n \in 1..Len(tree) :
          /\ tree[n].kind = "Identifier"
          /\ res' = [op |-> "has_callexpr", node |-> n, val |-> has_callexpr(n)]
    /\ UNCHANGED <<subp, params, tree, envs, stack, phase>>

EvalParents ==
    /\ phase = "tree"
    /\ res = NoRes
    /\ \E n \in 1..Len(tree) :
          res' = [op |-> "parents", node |-> n, val |-> parents(n)]
    /\ UNCHANGED <<subp, params, tree, envs, stack, phase>>

TreeNext ==
    \/ EvalHasCallexpr
    \/ EvalParents

TreeSpec == TreeInit /\ [][TreeNext]_vars

\* the identifier is the head of a call: it is the called name of a CallExpr,
\* or the suffix of a Prefix that is itself the called name of a CallExpr
IsCallHead(n) ==
    LET p == tree[n].parent
    IN \/ is_a(p, "CallExpr") /\ tree[p].name = n
       \/ /\ is_a(p, "Prefix")
          /\ tree[p].suffix = n
          /\ is_a(tree[p].parent, "CallExpr")
          /\ tree[tree[p].parent].name = p

\* C6: has_callexpr is true exactly when the identifier is the head of a call
\* expression (the called name of a CallExpr, or the suffix of a dotted Prefix
\* that is itself the called name); it is false for B in A.B.C (12, 15) and for
\* the suffix of a dotted name that is not used in any call.
C6_HasCallexprIffCallHead ==
    res.op = "has_callexpr" => res.val = IsCallHead(res.node)

(***************************************************************************)
(* Lexical environments.  envs[e] = [parent, entries]; entries maps a      *)
(* symbol to the sequence of its entries [el, MD], in definition order.    *)
(* An element el is the declaring node: [kind, id, parent_env, params,     *)
(* lex, resolved, name, designated, ord]; parent_env is the environment    *)
(* the node designates.  lex, resolved, name and designated record where   *)
(* the builder met the node: the innermost open environment, whether and   *)
(* to which environment its dotted name resolved, and its name expression; *)
(* ord is the position of an object declaration among the declarations     *)
(* met so far (0 for the nodes that are visible before their position).    *)
(***************************************************************************)
NoEnv == 0

Symbols == {"a", "b", "c", "d", "u"}

EmptyEntries == [s \in Symbols |-> <<>>]

NoMD == [dottable_subprogram |-> FALSE, implicit_deref |-> FALSE]

Ok(v) == [err |-> "none", val |-> v]

Fail(e) == [err |-> e]

\* define(symbol, node, metadata): one more entry, never overwriting
EnvDefine(E, env, sym, el, md) ==
    [E EXCEPT ![env].entries[sym] = Append(@, [el |-> el, MD |-> md])]

\* lookup(symbol): the entries defined directly in this environment
EnvLookup(env, sym) == envs[env].entries[sym]

\* get(symbol): the entries at the first level of the parent chain that has any
RECURSIVE EnvGet(_, _)
EnvGet(env, sym) ==
    IF env = NoEnv THEN <<>>
    ELSE IF EnvLookup(env, sym) # <<>> THEN EnvLookup(env, sym)
    ELSE EnvGet(envs[env].parent, sym)

\* resolve_unique(symbol): the single entry of the first non-empty level
resolve_unique(env, sym) ==
    LET found == EnvGet(env, sym)
    IN IF found = <<>> THEN Fail("UnboundNameError")
       ELSE IF Len(found) > 1 THEN Fail("AmbiguousNameError")
       ELSE Ok(found[1])

(***************************************************************************)
(* Name resolution properties.  env is the binding of Env under which the  *)
(* property is evaluated: the node's own environment, or the environment   *)
(* an enclosing eval_in_env has redirected the lookup to.                  *)
(***************************************************************************)
RECURSIVE designated_env(_, _)
RECURSIVE env_elements(_, _)
RECURSIVE name(_)

BaseId_designated_env_first(self, env) ==
    LET found == EnvGet(env, Symbol(tree[self].tok))
    IN IF found = <<>> THEN Fail("UnboundNameError")
       ELSE Ok(found[1].el.parent_env)

\* BaseId.designated_env: Env.resolve_unique(Self.tok).el.parent_env
BaseId_designated_env(self, env) ==
    LET r == resolve_unique(env, Symbol(tree[self].tok))
    IN IF r.err # "none" THEN r ELSE Ok(r.val.el.parent_env)

\* BaseId.scope: Env
BaseId_scope(self, env) == Ok(env)

\* the filter of BaseId.env_elements outside a call
ValidWithoutCallexpr_no_md(e) ==
    IF e.el.kind = "SubprogramSpec"
    THEN nb_min_params(e.el) = 1 \/ nb_min_params(e.el) = 0
    ELSE TRUE

ValidWithoutCallexpr(e) ==
    IF e.el.kind = "SubprogramSpec"
    THEN \/ e.MD.dottable_subprogram /\ nb_min_params(e.el) = 1
         \/ nb_min_params(e.el) = 0
    ELSE TRUE

\* BaseId.env_elements
BaseId_env_elements(self, env) ==
    IF has_callexpr(self)
    THEN Ok(EnvGet(env, Symbol(tree[self].tok)))
    ELSE Ok(SelectSeq(EnvGet(env, Symbol(tree[self].tok)), ValidWithoutCallexpr))

\* Prefix.designated_env:
\* Self.prefix.designated_env.eval_in_env(Self.suffix.designated_env)
Prefix_designated_env(self, env) ==
    LET d == designated_env(tree[self].prefix, env)
    IN IF d.err # "none" THEN d ELSE designated_env(tree[self].suffix, d.val)

Prefix_scope_root(self, env) ==
    LET d == designated_env(tree[self].prefix, env)
    IN IF d.err # "none" THEN Ok(1) ELSE d

\* Prefix.scope: Self.prefix.designated_env
Prefix_scope(self, env) == designated_env(tree[self].prefix, env)

Prefix_env_elements_lexical(self, env) ==
    LET d == designated_env(tree[self].prefix, env)
    IN IF d.err # "none" THEN d ELSE env_elements(tree[self].suffix, env)

\* Prefix.env_elements:
\* Self.prefix.designated_env.eval_in_env(Self.suffix.env_elements)
Prefix_env_elements(self, env) ==
    LET d == designated_env(tree[self].prefix, env)
    IN IF d.err # "none" THEN d ELSE env_elements(tree[self].suffix, d.val)

designated_env(self, env) ==
    IF tree[self].kind = "Prefix"
    THEN Prefix_designated_env(self, env)
    ELSE BaseId_designated_env(self, env)

scope(self, env) ==
    IF tree[self].kind = "Prefix"
    THEN Prefix_scope(self, env)
    ELSE BaseId_scope(self, env)

env_elements(self, env) ==
    IF tree[self].kind = "Prefix"
    THEN Prefix_env_elements(self, env)
    ELSE BaseId_env_elements(self, env)

\* Prefix.name: Self.suffix.name; SingleTokNode.name: Self.tok
name(self) ==
    IF tree[self].kind = "Prefix" THEN name(tree[self].suffix) ELSE tree[self].tok

\* the absent node
NullNode == [kind |-> "Null"]

\* Expr.entities: Self.env_elements.map(lambda e: e.el)
entities(self, env) ==
    LET r == env_elements(self, env)
    IN IF r.err # "none" THEN r ELSE Ok([k \in 1..Len(r.val) |-> r.val[k].el])

IsTypeDecl(e) == e.kind \in {"SubtypeDecl", "FullTypeDecl"}

BaseId_get_type_any(self, env) ==
    LET r == entities(self, env)
    IN IF r.err # "none" THEN r
       ELSE IF r.val = <<>> THEN Ok(NullNode) ELSE Ok(r.val[1])

\* BaseId.get_type:
\* Self.entities.filter(lambda e: e.is_a(SubtypeDecl, FullTypeDecl)).at(0)
BaseId_get_type(self, env) ==
    LET r == entities(self, env)
    IN IF r.err # "none" THEN r
       ELSE LET types == SelectSeq(r.val, IsTypeDecl)
            IN IF types = <<>> THEN Ok(NullNode) ELSE Ok(types[1])

(***************************************************************************)
(* Resolution specification.  The tree holds the references                *)
(*     C (12, 15);   A.B.C (12, 15);   X := A.B.C;   X := c;               *)
(* all written in environment LexEnv.  Environment 1 is the root, LexEnv   *)
(* the body holding the statements, 3 and 4 the environments of the        *)
(* packages P and Q.  Entries are defined one at a time, an entry for A    *)
(* can be edited to denote the other package, and each Eval action         *)
(* evaluates one property on the environments as they are.                 *)
(***************************************************************************)
MaxDefs == 3

LexEnv == 2

RefTree ==
    <<MkNode("CallExpr", 16, NoNode, NoNode, 2, ""),          \* 1: C (12, 15)
      MkNode("Identifier", 1, NoNode, NoNode, NoNode, "C"),   \* 2
      MkNode("CallExpr", 16, NoNode, NoNode, 4, ""),          \* 3: A.B.C (12, 15)
      MkNode("Prefix", 3, 5, 8, NoNode, ""),                  \* 4: A.B.C
      MkNode("Prefix", 4, 6, 7, NoNode, ""),                  \* 5: A.B
      MkNode("Identifier", 5, NoNode, NoNode, NoNode, "A"),   \* 6
      MkNode("Identifier", 5, NoNode, NoNode, NoNode, "B"),   \* 7
      MkNode("Identifier", 4, NoNode, NoNode, NoNode, "C"),   \* 8
      MkNode("AssignStatement", 16, NoNode, NoNode, NoNode, ""), \* 9: X := A.B.C
      MkNode("Prefix", 9, 11, 14, NoNode, ""),                \* 10: A.B.C
      MkNode("Prefix", 10, 12, 13, NoNode, ""),               \* 11: A.B
      MkNode("Identifier", 11, NoNode, NoNode, NoNode, "A"),  \* 12
      MkNode("Identifier", 11, NoNode, NoNode, NoNode, "B"),  \* 13
      MkNode("Identifier", 10, NoNode, NoNode, NoNode, "C"),  \* 14
      MkNode("Identifier", 17, NoNode, NoNode, NoNode, "c"),  \* 15: X := c
      MkNode("HandledStatements", NoNode, NoNode, NoNode, NoNode, ""), \* 16
      MkNode("AssignStatement", 16, NoNode, NoNode, NoNode, "")>>      \* 17

CalledC == 2
CalledABC == 4
PlainABC == 10
PlainC == 15

RefEnvs ==
    <<[parent |-> NoEnv, entries |-> EmptyEntries],
      [parent |-> 1, entries |-> EmptyEntries],
      [parent |-> 1, entries |-> EmptyEntries],
      [parent |-> 1, entries |-> EmptyEntries]>>

MkEl(kind, id, parent_env, profile) ==
    [kind |-> kind, id |-> id, parent_env |-> parent_env, params |-> profile,
     lex |-> NoEnv, resolved |-> TRUE, name |-> NoNode, designated |-> NoEnv,
     ord |-> 0]

PkgP == MkEl("PackageDecl", "P", 3, <<>>)
PkgQ == MkEl("PackageDecl", "Q", 4, <<>>)

\* a type declaration and three subprogram profiles declared in environment e:
\* (X : T := default), (X : T) and (X, Y : T)
TypeT(e) == MkEl("FullTypeDecl", "T", e, <<>>)
Sub0(e) == MkEl("SubprogramSpec", "S0", e, <<[ids |-> <<"X">>, default |-> "expr"]>>)
Sub1(e) == MkEl("SubprogramSpec", "S1", e, <<[ids |-> <<"X">>, default |-> "null"]>>)
Sub2(e) == MkEl("SubprogramSpec", "S2", e, <<[ids |-> <<"X", "Y">>, default |-> "null"]>>)

Dottable == [dottable_subprogram |-> TRUE, implicit_deref |-> FALSE]

\* the entries a Define step can add: <<env, symbol, element, metadata>>
DefChoices ==
    {<<e, "a", pkg, NoMD>> : e \in {1, LexEnv}, pkg \in {PkgP, PkgQ}}
    \cup {<<3, "b", PkgQ, NoMD>>, <<3, "b", PkgP, NoMD>>, <<4, "b", PkgP, NoMD>>}
    \cup {<<LexEnv, "c", TypeT(LexEnv), NoMD>>, <<LexEnv, "c", Sub0(LexEnv), NoMD>>,
          <<LexEnv, "c", Sub1(LexEnv), NoMD>>, <<LexEnv, "c", Sub1(LexEnv), Dottable>>,
          <<LexEnv, "c", Sub2(LexEnv), Dottable>>}
    \cup {<<4, "c", TypeT(4), NoMD>>, <<4, "c", Sub1(4), NoMD>>,
          <<3, "c", TypeT(3), NoMD>>, <<1, "c", TypeT(1), NoMD>>}

RECURSIVE SumLen(_, _)
SumLen(f, S) ==
    IF S = {} THEN 0
    ELSE LET x == CHOOSE y \in S : TRUE IN Len(f[x]) + SumLen(f, S \ {x})

RECURSIVE NbEntries(_, _)
NbEntries(E, k) ==
    IF k = 0 THEN 0 ELSE SumLen(E[k].entries, Symbols) + NbEntries(E, k - 1)

ResolveInit ==
    /\ subp = NoSubp
    /\ params = <<>>
    /\ tree = RefTree
    /\ envs = RefEnvs
    /\ stack = <<>>
    /\ phase = "resolve"
    /\ res = NoRes

Define ==
    /\ phase = "resolve"
    /\ res = NoRes
    /\ NbEntries(envs, Len(envs)) < MaxDefs
    /\ \E d \in DefChoices : envs' = EnvDefine(envs, d[1], d[2], d[3], d[4])
    /\ UNCHANGED <<subp, params, tree, stack, phase, res>>

\* the entry A resolves to is edited to denote the other package
Rebind ==
    /\ phase = "resolve"
    /\ res = NoRes
    /\ \E e \in {1, LexEnv} : \E i \in 1..Len(envs[e].entries["a"]) :
          envs' = [envs EXCEPT ![e].entries["a"][i].el =
                       IF @ = PkgP THEN PkgQ ELSE PkgP]
    /\ res' = [op |-> "rebound"]
    /\ UNCHANGED <<subp, params, tree, stack, phase>>

Fresh == res.op \in {"none", "rebound"}

EvalEnvElements ==
    /\ phase = "resolve"
    /\ Fresh
    /\ \E n \in {CalledC, CalledABC, PlainABC, PlainC} :
          res' = [op |-> "env_elements", node |-> n, after |-> res.op,
                  r |-> env_elements(n, LexEnv)]
    /\ UNCHANGED <<subp, params, tree, envs, stack, phase>>

EvalResolveUnique ==
    /\ phase = "resolve"
    /\ Fresh
    /\ \E sym \in {"a", "c"} :
          res' = [op |-> "resolve_unique", env |-> LexEnv, sym |-> sym,
                  after |-> res.op, r |-> resolve_unique(LexEnv, sym)]
    /\ UNCHANGED <<subp, params, tree, envs, stack, phase>>

EvalDesignatedEnv ==
    /\ phase = "resolve"
    /\ Fresh
    /\ \E n \in {6, 5} :
          res' = [op |-> "designated_env", node |-> n, after |-> res.op,
                  r |-> designated_env(n, LexEnv)]
    /\ UNCHANGED <<subp, params, tree, envs, stack, phase>>

EvalScope ==
    /\ phase = "resolve"
    /\ Fresh
    /\ \E n \in {CalledABC, 5} :
          res' = [op |-> "scope", node |-> n, after |-> res.op,
                  r |-> scope(n, LexEnv)]
    /\ UNCHANGED <<subp, params, tree, envs, stack, phase>>

EvalName ==
    /\ phase = "resolve"
    /\ Fresh
    /\ \E n \in {CalledABC, 5} :
          res' = [op |-> "name", node |-> n, after |-> res.op, r |-> Ok(name(n))]
    /\ UNCHANGED <<subp, params, tree, envs, stack, phase>>

EvalGetType ==
    /\ phase = "resolve"
    /\ Fresh
    /\ \E n \in {CalledC, PlainC} :
          res' = [op |-> "get_type", node |-> n, after |-> res.op,
                  r |-> BaseId_get_type(n, LexEnv)]
    /\ UNCHANGED <<subp, params, tree, envs, stack, phase>>

ResolveNext ==
    \/ Define
    \/ Rebind
    \/ EvalEnvElements
    \/ EvalResolveUnique
    \/ EvalDesignatedEnv
    \/ EvalScope
    \/ EvalName
    \/ EvalGetType

ResolveSpec == ResolveInit /\ [][ResolveNext]_vars

(***************************************************************************)
(* Claims about name resolution, checked under ResolveSpec.                *)
(***************************************************************************)
\* the environments from env up to the root, innermost first
RECURSIVE EnvChain(_)
EnvChain(env) ==
    IF env = NoEnv THEN <<>> ELSE <<env>> \o EnvChain(envs[env].parent)

\* the first environment of the chain from env that has an entry for sym
HasLevel(env, sym) ==
    \E k \in 1..Len(EnvChain(env)) : envs[EnvChain(env)[k]].entries[sym] # <<>>

FirstLevel(env, sym) ==
    LET chain == EnvChain(env)
        k == CHOOSE i \in 1..Len(chain) :
                /\ envs[chain[i]].entries[sym] # <<>>
                /\ \A j \in 1..(i - 1) : envs[chain[j]].entries[sym] = <<>>
    IN chain[k]

\* the number of formals of a profile that have no default value
NbRequired(el) ==
    Cardinality({<<g, k>> \in (1..Len(el.params)) \X (1..MaxFormals) :
                    /\ k <= Len(el.params[g].ids)
                    /\ el.params[g].default = "null"})

Survives(e) ==
    \/ e.el.kind # "SubprogramSpec"
    \/ NbRequired(e.el) = 0
    \/ e.MD.dottable_subprogram /\ NbRequired(e.el) = 1

\* C5: BaseId.env_elements is the unfiltered Env.get(tok) when has_callexpr is
\* true, and otherwise Env.get(tok) restricted to the entries that are not a
\* SubprogramSpec, or have nb_min_params = 0, or are dottable with
\* nb_min_params = 1.
C5_EnvElementsFilter ==
    (res.op = "env_elements" /\ tree[res.node].kind = "Identifier") =>
        LET all == IF HasLevel(LexEnv, "c")
                   THEN envs[FirstLevel(LexEnv, "c")].entries["c"] ELSE <<>>
        IN /\ res.r.err = "none"
           /\ has_callexpr(res.node) => res.r.val = all
           /\ ~has_callexpr(res.node) => res.r.val = SelectSeq(all, Survives)
           /\ has_callexpr(res.node) = (res.node = CalledC)

C5_Witness ==
    /\ res.op = "env_elements"
    /\ res.node = PlainC
    /\ Len(envs[LexEnv].entries["c"]) = 3
    /\ Len(res.r.val) = 1
    /\ res.r.val[1].MD.dottable_subprogram

\* C7: resolve_unique stops at the first environment of the parent chain whose
\* own entry set for the symbol is non-empty: one entry there is returned
\* whatever outer environments hold, several fail with AmbiguousNameError, and
\* an exhausted chain fails with UnboundNameError; BaseId.designated_env
\* fails exactly when resolve_unique does, with the same error.
C7_ResolveUnique ==
    /\ res.op = "resolve_unique" =>
          IF ~HasLevel(res.env, res.sym)
          THEN res.r.err = "UnboundNameError"
          ELSE LET level == envs[FirstLevel(res.env, res.sym)].entries[res.sym]
               IN IF Len(level) = 1
                  THEN res.r.err = "none" /\ res.r.val = level[1]
                  ELSE res.r.err = "AmbiguousNameError"
    /\ (res.op = "designated_env" /\ tree[res.node].kind = "Identifier") =>
          LET sym == Symbol(tree[res.node].tok)
          IN IF ~HasLevel(LexEnv, sym)
             THEN res.r.err = "UnboundNameError"
             ELSE LET level == envs[FirstLevel(LexEnv, sym)].entries[sym]
                  IN IF Len(level) = 1
                     THEN res.r.err = "none" /\ res.r.val = level[1].el.parent_env
                     ELSE res.r.err = "AmbiguousNameError"

C7_Witness ==
    /\ res.op = "designated_env"
    /\ res.node = 6
    /\ Len(envs[LexEnv].entries["a"]) = 1
    /\ Len(envs[1].entries["a"]) = 2
    /\ res.r.err = "none"

\* C8: env_elements never fails with UnboundNameError or AmbiguousNameError,
\* for a bare identifier and for a dotted Prefix of any depth: an unbound name
\* or prefix segment yields the empty set.
C8_EnvElementsNeverFails ==
    res.op = "env_elements" =>
        /\ res.r.err = "none"
        /\ (\E sym \in {"a", "b", "c"} :
               /\ tree[res.node].kind = "Prefix" \/ sym = "c"
               /\ \A e \in 1..Len(envs) : envs[e].entries[sym] = <<>>)
           => res.r.val = <<>>

\* C9: for A.B.C the candidate set of the whole name is the env_elements of
\* the suffix C looked up from the environment designated by A.B (never from
\* the lexical environment); Prefix.scope is the prefix's designated_env and
\* Prefix.name the suffix's name at every level; editing the entry A resolves
\* to moves C's candidate set to the newly designated environment.
C9_PrefixRedirection ==
    LET a == IF HasLevel(LexEnv, "a")
             THEN envs[FirstLevel(LexEnv, "a")].entries["a"] ELSE <<>>
        envA == a[1].el.parent_env
        b == IF Len(a) = 1 /\ HasLevel(envA, "b")
             THEN envs[FirstLevel(envA, "b")].entries["b"] ELSE <<>>
        envAB == b[1].el.parent_env
        c == IF Len(b) = 1 /\ HasLevel(envAB, "c")
             THEN envs[FirstLevel(envAB, "c")].entries["c"] ELSE <<>>
    IN /\ (res.op = "env_elements" /\ res.node \in {CalledABC, PlainABC}
           /\ Len(a) = 1 /\ Len(b) = 1) =>
              /\ res.r.err = "none"
              /\ res.r.val = IF has_callexpr(tree[res.node].suffix) THEN c
                             ELSE SelectSeq(c, Survives)
       /\ (res.op = "scope" /\ Len(a) = 1) =>
              /\ res.node = 5 => res.r = Ok(envA)
              /\ (res.node = CalledABC /\ Len(b) = 1) => res.r = Ok(envAB)
       /\ res.op = "name" =>
              res.r.val = (IF res.node = CalledABC THEN "C" ELSE "B")

C9_Witness ==
    /\ res.op = "env_elements"
    /\ res.after = "rebound"
    /\ res.node = CalledABC
    /\ envs[LexEnv].entries["a"] = <<[el |-> PkgQ, MD |-> NoMD]>>
    /\ envs[4].entries["b"] = <<[el |-> PkgP, MD |-> NoMD]>>
    /\ envs[3].entries["c"] # <<>>
    /\ res.r = Ok(envs[3].entries["c"])

\* the type declarations bound to sym along the chain from env, nearest first
TypeDeclsAt(env, sym) ==
    SelectSeq([k \in 1..Len(envs[env].entries[sym]) |->
                  envs[env].entries[sym][k].el], IsTypeDecl)

RECURSIVE TypeDeclsInChain(_, _)
TypeDeclsInChain(env, sym) ==
    IF env = NoEnv THEN <<>>
    ELSE TypeDeclsAt(env, sym) \o TypeDeclsInChain(envs[env].parent, sym)

\* C14: BaseId.get_type returns the first of the identifier's entities that
\* is a SubtypeDecl or FullTypeDecl, null when there is none; when a non-type
\* entity found first in the environment chain shadows the type declaration
\* bound in an enclosing environment, get_type skips it and still returns
\* that type declaration.
C14_GetTypeSkipsShadowing ==
    res.op = "get_type" =>
        LET sym == Symbol(tree[res.node].tok)
            ents == entities(res.node, LexEnv).val
            types == SelectSeq(ents, IsTypeDecl)
            inChain == TypeDeclsInChain(LexEnv, sym)
        IN /\ res.r = IF types = <<>> THEN Ok(NullNode) ELSE Ok(types[1])
           /\ (/\ envs[LexEnv].entries[sym] # <<>>
               /\ TypeDeclsAt(LexEnv, sym) = <<>>
               /\ inChain # <<>>) => res.r = Ok(inChain[1])

(***************************************************************************)
(* Environment builder.  One pre-order pass: a child unit (child_unit      *)
(* macro) is registered in the environment its scope expression gives and  *)
(* opens a new environment below it; leaving the node closes it.  The      *)
(* declarations met by the pass are drawn one at a time.                   *)
(***************************************************************************)
MaxDecls == 3

\* the names a declaration can carry: A, A.B and U.B (U is never declared)
NameTree ==
    <<MkNode("Identifier", NoNode, NoNode, NoNode, NoNode, "A"),  \* 1: A
      MkNode("Prefix", NoNode, 3, 4, NoNode, ""),                 \* 2: A.B
      MkNode("Identifier", 2, NoNode, NoNode, NoNode, "A"),       \* 3
      MkNode("Identifier", 2, NoNode, NoNode, NoNode, "B"),       \* 4
      MkNode("Prefix", NoNode, 6, 7, NoNode, ""),                 \* 5: U.B
      MkNode("Identifier", 5, NoNode, NoNode, NoNode, "U"),       \* 6
      MkNode("Identifier", 5, NoNode, NoNode, NoNode, "B")>>      \* 7

DeclNames == {1, 2, 5}

ChildUnitKinds ==
    {"SubprogramDecl", "SubprogramBody", "PackageDecl", "PackageBody",
     "GenericPackageDecl"}

\* the environment the name designates by unique entries alone, NoEnv if a
\* segment is unbound or ambiguous (recorded with each declaration)
RECURSIVE UniquelyDesignated(_, _)
UniquelyDesignated(n, env) ==
    IF tree[n].kind = "Prefix"
    THEN LET d == UniquelyDesignated(tree[n].prefix, env)
         IN IF d = NoEnv THEN NoEnv ELSE UniquelyDesignated(tree[n].suffix, d)
    ELSE LET sym == Symbol(tree[n].tok)
         IN IF HasLevel(env, sym)
                /\ Len(envs[FirstLevel(env, sym)].entries[sym]) = 1
            THEN envs[FirstLevel(env, sym)].entries[sym][1].el.parent_env
            ELSE NoEnv

ScopeResolvable(n, env) ==
    tree[n].kind = "Prefix" => UniquelyDesignated(tree[n].prefix, env) # NoEnv

\* the environment the prefix of a dotted name designates, NoEnv otherwise
DesignatedByPrefix(n, env) ==
    IF tree[n].kind = "Prefix" THEN UniquelyDesignated(tree[n].prefix, env)
    ELSE NoEnv

child_unit_scope_lexical(name_expr, env) == Ok(env)

\* child_unit: scope = Property(name_expr.scope)
child_unit_scope(name_expr, env) == scope(name_expr, env)

\* child_unit: env_val_expr is Self.subp_spec for subprograms, Self otherwise
child_unit_env_val(kind) ==
    IF kind \in {"SubprogramDecl", "SubprogramBody"} THEN "SubprogramSpec" ELSE kind

\* EnvSpec(initial_env=Self.scope, add_env=True, add_to_env=(name, val)):
\* a scope that cannot be resolved degrades to the innermost open environment
child_unit_env_spec(E, kind, name_expr, cur) ==
    LET sc == child_unit_scope(name_expr, cur)
        initial_env == IF sc.err = "none" THEN sc.val ELSE cur
        new_env == Len(E) + 1
        el == [kind |-> child_unit_env_val(kind), id |-> new_env,
               parent_env |-> new_env, params |-> <<>>, lex |-> cur,
               resolved |-> ScopeResolvable(name_expr, cur),
               name |-> name_expr,
               designated |-> DesignatedByPrefix(name_expr, cur),
               ord |-> 0]
    IN Append(EnvDefine(E, initial_env, Symbol(name(name_expr)), el, NoMD),
              [parent |-> initial_env, entries |-> EmptyEntries])

BuildInit ==
    /\ subp = NoSubp
    /\ params = <<>>
    /\ tree = NameTree
    /\ envs = <<[parent |-> NoEnv, entries |-> EmptyEntries]>>
    /\ stack = <<1>>
    /\ phase = "build"
    /\ res = NoRes

\* the identifier lists an object declaration can carry
ObjectIds == {<<"C">>, <<"D">>, <<"C", "D">>}

\* ObjectDecl: env_spec = EnvSpec(add_to_env=(Self.ids, Self)): every identifier
\* of the declaration is bound to it in the innermost open environment
RECURSIVE ObjectDecl_env_spec(_, _, _, _)
ObjectDecl_env_spec(E, ids, el, cur) ==
    IF ids = <<>> THEN E
    ELSE ObjectDecl_env_spec(EnvDefine(E, cur, Symbol(Head(ids)), el, NoMD),
                             Tail(ids), el, cur)

ObjectDeclEl(E, cur) ==
    [kind |-> "ObjectDecl", id |-> NoEnv, parent_env |-> NoEnv,
     params |-> <<>>, lex |-> cur, resolved |-> TRUE, name |-> NoNode,
     designated |-> NoEnv, ord |-> NbEntries(E, Len(E)) + 1]

VisitObjectDecl ==
    /\ phase = "build"
    /\ NbEntries(envs, Len(envs)) < MaxDecls
    /\ \E ids \in ObjectIds :
          envs' = ObjectDecl_env_spec(envs, ids,
                                      ObjectDeclEl(envs, stack[Len(stack)]),
                                      stack[Len(stack)])
    /\ UNCHANGED <<subp, params, tree, stack, phase, res>>

VisitChildUnit ==
    /\ phase = "build"
    /\ Len(envs) <= MaxDecls
    /\ \E kind \in ChildUnitKinds : \E name_expr \in DeclNames :
          /\ envs' = child_unit_env_spec(envs, kind, name_expr, stack[Len(stack)])
          /\ stack' = Append(stack, Len(envs) + 1)
    /\ UNCHANGED <<subp, params, tree, phase, res>>

Leave ==
    /\ phase = "build"
    /\ Len(stack) > 1
    /\ stack' = SubSeq(stack, 1, Len(stack) - 1)
    /\ UNCHANGED <<subp, params, tree, envs, phase, res>>

Finish ==
    /\ phase = "build"
    /\ Len(stack) = 1
    /\ stack' = <<>>
    /\ phase' = "built"
    /\ UNCHANGED <<subp, params, tree, envs, res>>

\* the places <<env, symbol, index>> that hold an entry
Placed ==
    UNION {{<<x[1], x[2], i>> : i \in 1..Len(envs[x[1]].entries[x[2]])} :
              x \in (1..Len(envs)) \X Symbols}

ElAt(r) == envs[r[1]].entries[r[2]][r[3]].el

\* a name in the initializer of an object declaration, looked up once the
\* pass has finished: BaseId.scope is Env, the environment of its position
EvalInitializerLookup ==
    /\ phase = "built"
    /\ res = NoRes
    /\ \E r \in Placed : \E sym \in Symbols :
          /\ ElAt(r).kind = "ObjectDecl"
          /\ res' = [op |-> "initializer", decl |-> ElAt(r).ord, env |-> r[1],
                     sym |-> sym, r |-> resolve_unique(r[1], sym)]
    /\ UNCHANGED <<subp, params, tree, envs, stack, phase>>

\* a name in a statement of the block, package or body that owns env; the
\* statements follow every declaration of that environment
EvalStatementLookup ==
    /\ phase = "built"
    /\ res = NoRes
    /\ \E env \in 1..Len(envs) : \E sym \in Symbols :
          res' = [op |-> "statement", decl |-> NbEntries(envs, Len(envs)) + 1,
                  env |-> env, sym |-> sym, r |-> resolve_unique(env, sym)]
    /\ UNCHANGED <<subp, params, tree, envs, stack, phase>>

BuildNext ==
    \/ VisitChildUnit
    \/ Leave
    \/ Finish

BuildSpec == BuildInit /\ [][BuildNext]_vars

(***************************************************************************)
(* Declarations and uses within one unit: object declarations and sibling  *)
(* subprograms and packages with simple names, then lookups made once the  *)
(* pass has finished.                                                      *)
(***************************************************************************)
SiblingKinds == {"SubprogramDecl", "PackageDecl"}

SiblingNames == {1}

\* a subprogram or package declared next to the object declarations
VisitSibling ==
    /\ phase = "build"
    /\ NbEntries(envs, Len(envs)) < MaxDecls
    /\ \E kind \in SiblingKinds : \E name_expr \in SiblingNames :
          /\ envs' = child_unit_env_spec(envs, kind, name_expr, stack[Len(stack)])
          /\ stack' = Append(stack, Len(envs) + 1)
    /\ UNCHANGED <<subp, params, tree, phase, res>>

ScopeNext ==
    \/ VisitObjectDecl
    \/ VisitSibling
    \/ Leave
    \/ Finish
    \/ EvalInitializerLookup
    \/ EvalStatementLookup

ScopeSpec == BuildInit /\ [][ScopeNext]_vars

(***************************************************************************)
(* Claims about the builder, checked under BuildSpec.                      *)
(***************************************************************************)
\* C10: a child unit whose scope expression cannot be resolved at build time
\* does not abort the pass and, once the pass has finished, is registered
\* exactly once, in its lexical parent environment and in no other.
C10_FallbackPlacement ==
    phase = "built" =>
        LET placed == Placed
        IN \A d \in 2..Len(envs) :
              LET regs == {r \in placed : ElAt(r).id = d}
              IN /\ regs # {}
                 /\ \A r \in regs :
                       ~ElAt(r).resolved =>
                          /\ Cardinality(regs) = 1
                          /\ r[1] = ElAt(r).lex

C10_Witness ==
    /\ phase = "built"
    /\ Len(envs) = 4
    /\ Len(envs[1].entries["a"]) = 2
    /\ \E r \in Placed :
          /\ ~ElAt(r).resolved
          /\ ElAt(r).lex = 3
          /\ r[1] = 3
          /\ r[2] = "b"

C12_DeclareBeforeUse ==
    (phase = "built" /\ res.op \in {"statement", "initializer"}) =>
        LET ents == envs[res.env].entries[res.sym]
        IN Len(ents) = 1 =>
              LET el == ents[1].el
              IN /\ res.op = "statement" => res.r = Ok(ents[1])
                 /\ (res.op = "initializer" /\ el.kind # "ObjectDecl") =>
                        res.r = Ok(ents[1])
                 /\ (res.op = "initializer" /\ el.kind = "ObjectDecl"
                        /\ el.ord < res.decl) =>
                        res.r = Ok(ents[1])
                 /\ (res.op = "initializer" /\ el.kind = "ObjectDecl"
                        /\ el.ord > res.decl
                        /\ EnvGet(envs[res.env].parent, res.sym) = <<>>) =>
                        res.r = Fail("UnboundNameError")

====
